---- MODULE Spec2Model ----
(***************************************************************************)
(* MaximumBudgetedAllocation (tools/maximum_budgeted_allocation.py): an    *)
(* object that collects bids with add(), builds the budgeted-allocation    *)
(* linear program inside solve() and hands it to the LP solver.            *)
(*                                                                         *)
(* Numbers are exact rationals.  A value is a pair <<n, d>> in lowest      *)
(* terms with d > 0; a point of the LP is kept over one common             *)
(* denominator.  The solver call of line 58 is modelled by its contract:   *)
(* on a feasible program it returns an optimal vertex (any of them when    *)
(* several tie), on an infeasible one the status Infeasible and values the *)
(* program does not control.  A term x_ij * 0 is kept in its expression    *)
(* with the coefficient 0, which is the same linear program.               *)
(***************************************************************************)
EXTENDS Integers, Sequences, FiniteSets, TLC

\* Bounds of the explored instances and call sequences.
MaxAgents == 2
MaxItems == 2
MaxBudget == 2
MaxBid == 2
MaxAdds == 2
MaxSolves == 2
MaxScale == 2

VARIABLES
    num_agents,   \* self.num_agents
    num_items,    \* self.num_items
    budgets,      \* self.budgets: agent_id -> budget
    problem,      \* self.problem: [objective, constraints]
    variables,    \* self.variables: (agent_id, item_id) -> LpVariable
    c,            \* self.c: (agent_id, item_id) -> bid
    status,       \* self.status
    objective,    \* self.objective: <<>> (None) or <<n, d>>
    assignment,   \* self.assignment: (agent_id, item_id) -> <<n, d>>
    driver,       \* who calls the object: "calls" (any caller) or "main" (main())
    pc,           \* main()'s position: number of its statements executed
    last,         \* the last call made and the assertion it raised ("" for none)
    adds,         \* accepted add() calls so far
    solves        \* solve() calls so far

objVars == <<num_agents, num_items, budgets, problem, variables, c,
             status, objective, assignment>>
vars == <<num_agents, num_items, budgets, problem, variables, c,
          status, objective, assignment, driver, pc, last, adds, solves>>

----------------------------------------------------------------------------
(* Exact arithmetic.                                                       *)

Abs(x) == IF x < 0 THEN 0 - x ELSE x

RECURSIVE Gcd(_, _)
Gcd(a, b) == IF b = 0 THEN Abs(a) ELSE Gcd(b, a % Abs(b))

\* The rational n/d (d > 0) in lowest terms.
Frac(n, d) == LET g == Gcd(n, d) IN <<n \div g, d \div g>>

RECURSIVE SumFn(_)
SumFn(f) ==
    IF DOMAIN f = {} THEN 0
    ELSE LET k == CHOOSE k \in DOMAIN f : TRUE
         IN f[k] + SumFn([x \in DOMAIN f \ {k} |-> f[x]])

RECURSIVE GcdSet(_)
GcdSet(S) ==
    IF S = {} THEN 0
    ELSE LET x == CHOOSE x \in S : TRUE IN Gcd(x, GcdSet(S \ {x}))

RECURSIVE SetToSeq(_)
SetToSeq(S) ==
    IF S = {} THEN <<>>
    ELSE LET x == CHOOSE x \in S : TRUE IN <<x>> \o SetToSeq(S \ {x})

\* Determinant of a square matrix (a sequence of rows), by expansion along
\* the first row.
Minor(M, j) ==
    [r \in 1..(Len(M) - 1) |->
        [k \in 1..(Len(M) - 1) |-> IF k < j THEN M[r + 1][k] ELSE M[r + 1][k + 1]]]

RECURSIVE Det(_)
Det(M) ==
    IF Len(M) = 0 THEN 1
    ELSE SumFn([j \in 1..Len(M) |->
                  IF M[1][j] = 0 THEN 0
                  ELSE (IF j % 2 = 1 THEN 1 ELSE 0 - 1) * M[1][j] * Det(Minor(M, j))])

----------------------------------------------------------------------------
(* The LP solver: self.problem.solve(pulp.PULP_CBC_CMD(msg=0)).            *)
(* An affine expression is a function from variable keys to coefficients; *)
(* a constraint row is [coef |-> expression, rhs |-> number], meaning     *)
(* coef . x <= rhs.                                                        *)

Coef(e, k) == IF k \in DOMAIN e THEN e[k] ELSE 0

\* The variables of a problem: those of its objective and of its rows.
ProblemCols(prob) ==
    (IF prob.objective = <<>> THEN {} ELSE DOMAIN prob.objective[1])
    \cup UNION {DOMAIN prob.constraints[r].coef : r \in DOMAIN prob.constraints}

ProblemRows(prob) == {prob.constraints[r] : r \in DOMAIN prob.constraints}

ObjCoef(prob, k) == IF prob.objective = <<>> THEN 0 ELSE Coef(prob.objective[1], k)

\* A point is [den |-> d > 0, num |-> [cols -> Int]]: x[k] = num[k] / den.
NormPoint(den, num) ==
    LET g == Gcd(den, GcdSet({num[k] : k \in DOMAIN num}))
    IN [den |-> den \div g, num |-> [k \in DOMAIN num |-> num[k] \div g]]

RowHolds(row, p) ==
    SumFn([k \in DOMAIN row.coef |-> row.coef[k] * p.num[k]]) <= row.rhs * p.den

InBox(vs, p) ==
    \A k \in DOMAIN p.num :
        /\ vs[k].lowBound * p.den <= p.num[k]
        /\ p.num[k] <= vs[k].upBound * p.den

PointFeasible(rows, vs, p) == InBox(vs, p) /\ \A row \in rows : RowHolds(row, p)

\* The basic solution with the variables of S basic, the rows of R tight
\* and every other variable at the bound nb gives it; {} when R, S is
\* singular.  Cramer's rule over the common denominator det(M).
BasicPoint(cols, vs, S, R, nb) ==
    LET ss == SetToSeq(S)
        rs == SetToSeq(R)
        n == Len(ss)
        fixed == [k \in cols \ S |-> IF nb[k] = "up" THEN vs[k].upBound ELSE vs[k].lowBound]
        rhs == [i \in 1..n |->
                  rs[i].rhs - SumFn([k \in cols \ S |-> Coef(rs[i].coef, k) * fixed[k]])]
        M == [i \in 1..n |-> [j \in 1..n |-> Coef(rs[i].coef, ss[j])]]
        d == Det(M)
        sgn == IF d < 0 THEN 0 - 1 ELSE 1
        Mcol(j) == [i \in 1..n |-> [k \in 1..n |-> IF k = j THEN rhs[i] ELSE M[i][k]]]
        idx(k) == CHOOSE j \in 1..n : ss[j] = k
    IN IF d = 0 THEN {}
       ELSE {NormPoint(Abs(d),
                       [k \in cols |-> IF k \in S THEN sgn * Det(Mcol(idx(k)))
                                       ELSE fixed[k] * Abs(d)])}

\* Every vertex of {x : rows, bounds}.
Vertices(cols, rows, vs) ==
    UNION {UNION {UNION {{p \in BasicPoint(cols, vs, S, R, nb) : PointFeasible(rows, vs, p)}
                         : nb \in [cols \ S -> {"lo", "up"}]}
                  : R \in {Q \in SUBSET rows : Cardinality(Q) = Cardinality(S)}}
           : S \in SUBSET cols}

ObjNum(prob, p) == SumFn([k \in DOMAIN p.num |-> ObjCoef(prob, k) * p.num[k]])

\* The vertices at which the (maximised) objective is greatest.
OptimalVertices(prob, vs) ==
    LET V == Vertices(ProblemCols(prob), ProblemRows(prob), vs)
    IN {p \in V : \A q \in V : ObjNum(prob, p) * q.den >= ObjNum(prob, q) * p.den}

\* What the solver can leave in the variables when it reports Infeasible:
\* not determined by the program; any corner of the box stands for it.
BoxCorners(cols, vs) ==
    {[den |-> 1, num |-> [k \in cols |-> IF nb[k] = "up" THEN vs[k].upBound ELSE vs[k].lowBound]]
        : nb \in [cols -> {"lo", "up"}]}

\* The outcomes of problem.solve(): a status and the variables' values.
LpSolve(prob, vs) ==
    LET opt == OptimalVertices(prob, vs)
    IN IF opt # {}
       THEN {[status |-> "Optimal", values |-> p] : p \in opt}
       ELSE {[status |-> "Infeasible", values |-> p] : p \in BoxCorners(ProblemCols(prob), vs)}

\* pulp.value(expression) with the variables at p.
ExprValue(e, p) == Frac(SumFn([k \in DOMAIN e |-> e[k] * p.num[k]]), p.den)

\* pulp.value(variable) with the variables at p.
VarValue(k, p) == Frac(p.num[k], p.den)

----------------------------------------------------------------------------
(* The object.                                                             *)

\* pulp.LpVariable(f"{agent_id}_{item_id}", 0.0, 1.0, pulp.LpContinuous)
LpVariable(agent_id, item_id) ==
    [name |-> <<agent_id, item_id>>, lowBound |-> 0, upBound |-> 1]

EmptyMap == [k \in {} |-> 0]

\* pulp.LpProblem("BudgetedAllocation", pulp.LpMaximize)
NewProblem == [objective |-> <<>>, constraints |-> <<>>]

AgentKeys(vs, ni, agent_id) ==
    {k \in {<<agent_id, i>> : i \in 0..(ni - 1)} : k \in DOMAIN vs}

ItemKeys(vs, na, item_id) ==
    {k \in {<<a, item_id>> : a \in 0..(na - 1)} : k \in DOMAIN vs}

\* Mutant of ObjectiveExpr: the bids left out of the objective (the sum of
\* x_ij alone, as in the capacity rows).
ObjectiveExprUnit(na, ni, vs, cc) ==
    [k \in UNION {AgentKeys(vs, ni, a) : a \in 0..(na - 1)} |-> 1]

\* Lines 34-39: the objective, the sum of x_ij * c_ij over the bids.
ObjectiveExpr(na, ni, vs, cc) ==
    [k \in UNION {AgentKeys(vs, ni, a) : a \in 0..(na - 1)} |-> cc[k]]

\* Mutant of BudgetRow: the bids left out of the budget row.
BudgetRowUnitCoef(ni, vs, cc, bud, agent_id) ==
    [coef |-> [k \in AgentKeys(vs, ni, agent_id) |-> 1], rhs |-> bud[agent_id]]

\* Lines 42-48: agent_id's budget row, when the agent has a bid.
BudgetRow(ni, vs, cc, bud, agent_id) ==
    [coef |-> [k \in AgentKeys(vs, ni, agent_id) |-> cc[k]], rhs |-> bud[agent_id]]

\* Lines 51-56: item_id's capacity row, when the item has a bid.
ItemRow(na, vs, item_id) ==
    [coef |-> [k \in ItemKeys(vs, na, item_id) |-> 1], rhs |-> 1]

RECURSIVE BudgetRowsFrom(_, _, _, _, _, _)
BudgetRowsFrom(na, ni, vs, cc, bud, agent_id) ==
    IF agent_id >= na THEN <<>>
    ELSE (IF AgentKeys(vs, ni, agent_id) # {}
          THEN <<BudgetRow(ni, vs, cc, bud, agent_id)>> ELSE <<>>)
         \o BudgetRowsFrom(na, ni, vs, cc, bud, agent_id + 1)

RECURSIVE ItemRowsFrom(_, _, _, _)
ItemRowsFrom(na, ni, vs, item_id) ==
    IF item_id >= ni THEN <<>>
    ELSE (IF ItemKeys(vs, na, item_id) # {}
          THEN <<ItemRow(na, vs, item_id)>> ELSE <<>>)
         \o ItemRowsFrom(na, ni, vs, item_id + 1)

\* Mutant of BuildProblem: the capacity rows are not added.
BuildProblemNoItemRows(prob, na, ni, vs, cc, bud) ==
    [objective |-> <<ObjectiveExpr(na, ni, vs, cc)>>,
     constraints |-> prob.constraints \o BudgetRowsFrom(na, ni, vs, cc, bud, 0)]

\* Lines 34-56: self.problem after solve() has set the objective and
\* appended its rows to the rows already there.
BuildProblem(prob, na, ni, vs, cc, bud) ==
    [objective |-> <<ObjectiveExpr(na, ni, vs, cc)>>,
     constraints |-> prob.constraints
                     \o BudgetRowsFrom(na, ni, vs, cc, bud, 0)
                     \o ItemRowsFrom(na, ni, vs, 0)]

\* Lines 62-64: the entries solve() writes into self.assignment.
NonZeroValues(vs, p) ==
    [k \in {k \in DOMAIN vs : VarValue(k, p)[1] # 0} |-> VarValue(k, p)]

Override(f, g) ==
    [k \in DOMAIN f \cup DOMAIN g |-> IF k \in DOMAIN g THEN g[k] ELSE f[k]]

UpdateAssignment(old, vs, p) == Override(old, NonZeroValues(vs, p))

\* Mutant of AgentIdOk: the upper end of the range is let through.
AgentIdOkInclusive(agent_id) == 0 <= agent_id /\ agent_id <= num_agents

\* Lines 24-26: the assertions of add().
AgentIdOk(agent_id) == 0 <= agent_id /\ agent_id < num_agents
ItemIdOk(item_id) == 0 <= item_id /\ item_id < num_items
BidOk(bid) == bid >= 0

\* The assertion of add() that fails first ("" when none does): the
\* AssertionError the call raises.
AddRaises(agent_id, item_id, bid) ==
    IF ~AgentIdOk(agent_id) THEN "assert agent_id"
    ELSE IF ~ItemIdOk(item_id) THEN "assert item_id"
    ELSE IF ~BidOk(bid) THEN "assert bid"
    ELSE ""

\* add(agent_id, item_id, bid)
Add(agent_id, item_id, bid) ==
    IF AddRaises(agent_id, item_id, bid) = ""
    THEN /\ variables' = Override(variables,
                 [k \in {<<agent_id, item_id>>} |-> LpVariable(agent_id, item_id)])
         /\ c' = Override(c, [k \in {<<agent_id, item_id>>} |-> bid])
         /\ last' = [op |-> "add", raised |-> ""]
         /\ UNCHANGED <<num_agents, num_items, budgets, problem,
                        status, objective, assignment>>
    ELSE /\ last' = [op |-> "add", raised |-> AddRaises(agent_id, item_id, bid)]
         /\ UNCHANGED objVars

\* solve()
Solve ==
    LET prob == BuildProblem(problem, num_agents, num_items, variables, c, budgets)
    IN \E out \in LpSolve(prob, variables) :
        /\ problem' = prob
        /\ status' = out.status
        /\ objective' = ExprValue(prob.objective[1], out.values)
        /\ assignment' = UpdateAssignment(assignment, variables, out.values)
        /\ last' = [op |-> "solve", raised |-> ""]
        /\ UNCHANGED <<num_agents, num_items, budgets, variables, c>>

----------------------------------------------------------------------------
(* The callers.                                                            *)

BudgetValues == {0 - 1} \cup (0..MaxBudget)
BidValues == (0 - 1)..MaxBid

\* main(), lines 94-107.
MainBudgets == [a \in 0..1 |-> IF a = 0 THEN 300 ELSE 400]
MainAdds == << <<0, 0, 200>>, <<0, 1, 200>>, <<0, 2, 100>>,
               <<1, 0, 100>>, <<1, 1, 100>>, <<1, 2, 200>> >>

\* __init__(num_agents, num_items, budgets), its assertions passed.
Constructed(na, ni, bud) ==
    /\ na > 0 /\ ni > 0 /\ DOMAIN bud = 0..(na - 1)
    /\ num_agents = na
    /\ num_items = ni
    /\ budgets = bud
    /\ problem = NewProblem
    /\ variables = EmptyMap
    /\ c = EmptyMap
    /\ status = "None"
    /\ objective = <<>>
    /\ assignment = EmptyMap

Init ==
    /\ last = [op |-> "init", raised |-> ""]
    /\ adds = 0
    /\ solves = 0
    /\ pc = 0
    /\ \/ /\ driver = "calls"
          /\ \E na \in 1..MaxAgents, ni \in 1..MaxItems :
                \E bud \in [0..(na - 1) -> BudgetValues] : Constructed(na, ni, bud)
       \/ /\ driver = "main"
          /\ Constructed(2, 3, MainBudgets)

\* A bid for a pair that already has one replaces the LpVariable object the
\* rows built by an earlier solve() refer to; what the solver then does with
\* two variables of one name is outside this model, so such a call is made
\* only before the first solve().
AddCall ==
    /\ driver = "calls"
    /\ \E agent_id \in (0 - 1)..num_agents, item_id \in (0 - 1)..num_items,
          bid \in BidValues :
        /\ adds < MaxAdds
        /\ <<agent_id, item_id>> \in DOMAIN variables => solves = 0
        /\ Add(agent_id, item_id, bid)
        /\ adds' = IF last'.raised # "" THEN adds ELSE adds + 1
    /\ UNCHANGED <<driver, pc, solves>>

SolveCall ==
    /\ driver = "calls"
    /\ solves < MaxSolves
    /\ Solve
    /\ solves' = solves + 1
    /\ UNCHANGED <<driver, pc, adds>>

MainAdd ==
    /\ driver = "main"
    /\ pc < Len(MainAdds)
    /\ Add(MainAdds[pc + 1][1], MainAdds[pc + 1][2], MainAdds[pc + 1][3])
    /\ pc' = pc + 1
    /\ adds' = adds + 1
    /\ UNCHANGED <<driver, solves>>

MainSolve ==
    /\ driver = "main"
    /\ pc = Len(MainAdds)
    /\ Solve
    /\ pc' = pc + 1
    /\ solves' = solves + 1
    /\ UNCHANGED <<driver, adds>>

Next == AddCall \/ SolveCall \/ MainAdd \/ MainSolve

Spec == Init /\ [][Next]_vars

----------------------------------------------------------------------------
(* Rationals <<n, d>> in the properties.                                   *)

RatLeq(p, q) == p[1] * q[2] <= q[1] * p[2]
RatScale(s, q) == Frac(s * q[1], q[2])

RECURSIVE ProdFn(_)
ProdFn(f) ==
    IF DOMAIN f = {} THEN 1
    ELSE LET k == CHOOSE k \in DOMAIN f : TRUE
         IN f[k] * ProdFn([x \in DOMAIN f \ {k} |-> f[x]])

\* The sum over the keys of S of w[k] * a[k], a rational <<n, d>>.
WeightedSum(S, w, a) ==
    LET D == ProdFn([k \in S |-> a[k][2]])
    IN Frac(SumFn([k \in S |-> w[k] * a[k][1] * (D \div a[k][2])]), D)

\* q <= b + 1e-6, for a rational q and an integer b.
LeqWithin(q, b) == q[1] * 1000000 <= (b * 1000000 + 1) * q[2]

Solved == last.op = "solve"

\* The allocation a satisfies every budget row and every capacity row of the
\* instance (budgets, c), within 1e-6.
AllocationFeasible(a) ==
    /\ \A agent_id \in 0..(num_agents - 1) :
          LeqWithin(WeightedSum({k \in DOMAIN a : k[1] = agent_id}, c, a), budgets[agent_id])
    /\ \A item_id \in 0..(num_items - 1) :
          LeqWithin(WeightedSum({k \in DOMAIN a : k[2] = item_id}, [k \in DOMAIN a |-> 1], a), 1)

\* The reference: the instance's linear program written from its
\* definition, one budget row per agent and one capacity row per item over
\* the bids cc, each fraction in [0, 1], and its corners enumerated.
RefCols(cc) == DOMAIN cc
RefBox(cc) == [k \in DOMAIN cc |-> [lowBound |-> 0, upBound |-> 1]]
RefRows(na, ni, cc, bud) ==
    {[coef |-> [k \in {k \in DOMAIN cc : k[1] = a} |-> cc[k]], rhs |-> bud[a]]
        : a \in 0..(na - 1)}
    \cup {[coef |-> [k \in {k \in DOMAIN cc : k[2] = i} |-> 1], rhs |-> 1]
        : i \in 0..(ni - 1)}
RefCorners(na, ni, cc, bud) == Vertices(RefCols(cc), RefRows(na, ni, cc, bud), RefBox(cc))
RefValue(cc, p) == Frac(SumFn([k \in DOMAIN cc |-> cc[k] * p.num[k]]), p.den)
RefIsMax(na, ni, cc, bud, v) ==
    /\ \E p \in RefCorners(na, ni, cc, bud) : RefValue(cc, p) = v
    /\ \A p \in RefCorners(na, ni, cc, bud) : RatLeq(RefValue(cc, p), v)

\* What solve() can report on a newly constructed object given the bids cc
\* and the budgets bud: status, objective and assignment.
FreshResults(na, ni, cc, bud) ==
    LET vs == [k \in DOMAIN cc |-> LpVariable(k[1], k[2])]
        prob == BuildProblem(NewProblem, na, ni, vs, cc, bud)
    IN {[status |-> out.status,
         objective |-> ExprValue(prob.objective[1], out.values),
         assignment |-> UpdateAssignment(EmptyMap, vs, out.values)]
           : out \in LpSolve(prob, vs)}

----------------------------------------------------------------------------
(* The claims.                                                             *)

\* C1: after solve() returns, the assignment satisfies every agent's budget
\* row and every item's capacity row (within 1e-6), for every instance the
\* constructor and add() accepted.
C1_Original == Solved => AllocationFeasible(assignment)

\* C2: the objective solve() reports equals the maximum of sum(bid * x)
\* over the allocations x in [0,1] that satisfy every budget row and every
\* capacity row of the instance, as the reference's corner enumeration finds
\* it (for every instance that has such an allocation).
C2_ObjectiveIsReferenceMax ==
    (Solved /\ RefCorners(num_agents, num_items, c, budgets) # {})
        => RefIsMax(num_agents, num_items, c, budgets, objective)

\* C2 witness: a second solve(), with the first solve's rows still in the
\* problem, whose optimum is fractional.
C2_Witness ==
    /\ Solved /\ solves = 2 /\ adds = 2 /\ status = "Optimal"
    /\ RefCorners(num_agents, num_items, c, budgets) # {}
    /\ objective[1] > 0
    /\ \E k \in DOMAIN assignment : assignment[k][2] > 1

\* C3 as stated: main()'s instance ends with status Optimal and objective 500.
C3_Original ==
    (driver = "main" /\ pc = Len(MainAdds) + 1)
        => (status = "Optimal" /\ objective = <<500, 1>>)

\* C3 amended: main()'s instance ends with status Optimal and objective 550.
C3_MainObjective550 ==
    (driver = "main" /\ pc = Len(MainAdds) + 1)
        => (status = "Optimal" /\ objective = <<550, 1>>)

\* C3 witness: main() has run its six add() calls and its solve().
C3_Witness ==
    /\ driver = "main" /\ pc = Len(MainAdds) + 1 /\ Solved
    /\ DOMAIN c = {<<0, 0>>, <<0, 1>>, <<0, 2>>, <<1, 0>>, <<1, 1>>, <<1, 2>>}

\* C4: an add() is accepted only for a new (agent_id, item_id) pair and a
\* strictly positive bid, and no instance with a negative budget reaches
\* solve().
C4_Original ==
    [][/\ adds' = adds + 1
           => (DOMAIN c' # DOMAIN c /\ \A k \in DOMAIN c' : c'[k] > 0)
       /\ solves' = solves + 1
           => \A a \in 0..(num_agents - 1) : budgets[a] >= 0]_vars

\* C5: an add() whose agent id or item id is out of range fails and leaves
\* every field of the object as it was, before or after a solve().
C5_RejectedAddChangesNothing ==
    [][\A agent_id \in (0 - 1)..num_agents, item_id \in (0 - 1)..num_items, bid \in BidValues :
          (/\ ~(agent_id \in 0..(num_agents - 1) /\ item_id \in 0..(num_items - 1))
           /\ Add(agent_id, item_id, bid))
             => (last'.raised # "" /\ UNCHANGED objVars)]_vars

\* C5 witness: after a solve() that filled the assignment, an add() with
\* an out-of-range agent id has raised.
C5_Witness ==
    /\ last = [op |-> "add", raised |-> "assert agent_id"]
    /\ solves > 0 /\ status = "Optimal" /\ DOMAIN assignment # {}

\* C6: solve() always ends with status Optimal.
C6_Original == Solved => status = "Optimal"

\* C7: solve() leaves the bids, coefficients, budgets and constraint rows of
\* the problem as they were, and a second solve() with no add() in between
\* reports the same status, objective and assignment.
C7_Original ==
    [][solves' = solves + 1 =>
          /\ problem'.constraints = problem.constraints
          /\ variables' = variables /\ c' = c /\ budgets' = budgets
          /\ Solved => (status' = status /\ objective' = objective
                        /\ assignment' = assignment)]_vars

\* C8: raising one bid of a solved instance never lowers the optimal
\* objective solve() reports.
C8_RaisingABidNeverLowersObjective ==
    (Solved /\ status = "Optimal") =>
        \A k \in DOMAIN c : \A bid \in (c[k] + 1)..MaxBid :
            \A r \in FreshResults(num_agents, num_items,
                                  [x \in DOMAIN c |-> IF x = k THEN bid ELSE c[x]], budgets) :
                r.status = "Optimal" /\ RatLeq(objective, r.objective)

\* C8 witness: a solved instance in which a bid can be raised, the agent's
\* budget already binding (the optimum is fractional).
C8_Witness ==
    /\ Solved /\ status = "Optimal" /\ objective[1] > 0
    /\ \E k \in DOMAIN c : c[k] < MaxBid /\ k \in DOMAIN assignment
                           /\ assignment[k][2] > 1

C10_Original ==
    [][(/\ solves' = solves + 1
        /\ Cardinality(LpSolve(problem', variables')) = 1
        /\ solves > 0 => Cardinality(LpSolve(problem, variables)) = 1) =>
          \E out \in LpSolve(problem', variables') :
              assignment' = NonZeroValues(variables', out.values)]_vars

====
